---- MODULE Spec2Model ----
(***************************************************************************)
(* Fixed-timestep simulation of bevy_pong (src/src/lib.rs): two paddles,   *)
(* a ball, four walls, AABB collision resolution and a scoreboard.         *)
(*                                                                         *)
(* Arithmetic.  The program computes in f32.  The model computes exactly,  *)
(* on a grid of 1/3 pixel: every length of the program is a whole number   *)
(* of pixels, a paddle moves 500/60 = 25/3 px per tick and the sampled     *)
(* ball directions move the ball 20/3, 16/3 or 12/3 px per tick, so every  *)
(* position the model reaches is a whole number of grid units and          *)
(* v * TIME_STEP is an exact division by 60.  Rounding of f32 is not       *)
(* modelled.                                                               *)
(*                                                                         *)
(* collide is bevy::sprite::collide_aabb::collide of the Bevy release the  *)
(* program is written against (0.9: add_system_set, FixedTimestep,         *)
(* Collision::Inside).  Its text is not part of the repository; the        *)
(* operator follows the library and section 4.1 of the specification.      *)
(***************************************************************************)
EXTENDS Integers, Sequences, FiniteSets

VARIABLES
    transform,    \* entity -> [translation |-> [x, y], scale |-> [x, y]]
    velocity,     \* the ball's Velocity component, grid units per second
    scoreboard,   \* the Scoreboard resource
    ran,          \* systems of the fixed-timestep set that ran in this tick
    tick,         \* ticks completed since the initial state
    ticks_left,   \* ticks still to be explored
    log,          \* collider -> what check_for_collisions last did for it
    prior         \* log of the resolution before the last one

vars == <<transform, velocity, scoreboard, ran, tick, ticks_left, log, prior>>

(* ---------------------------------------------------------------- bounds *)

\* Ticks explored from setup (Spec, SpecScenario).
MaxTicks == 36

\* SpecRally: ticks without input that precede its initial state, and ticks
\* explored from it.
RallyStart == 57

RallyTicks == 28

\* SpecPair: applications of the collision response to one pair, and the
\* ball positions tried around the collider, in cells of PairCell pixels.
MaxApplications == 2

PairSpanX == 6

PairSpanY == 16

(* ------------------------------------------------------------- constants *)

\* Pixels to grid units (1/3 px).
px(n) == 3 * n

\* TIME_STEP = 1.0 / 60.0: x * TIME_STEP is x / 60.
TICKS_PER_SECOND == 60

TimesTimeStep(x) == x \div TICKS_PER_SECOND

Vec2(a, b) == [x |-> a, y |-> b]

PADDLE_SIZE == Vec2(px(20), px(120))
GAP_BETWEEN_PADDLE_AND_SIDES == px(60)
PADDLE_SPEED == px(500)
PADDLE_PADDING == px(10)

BALL_STARTING_POSITION == Vec2(px(0), px(-50))
BALL_SIZE == Vec2(px(30), px(30))
BALL_SPEED == px(400)

WALL_THICKNESS == px(10)
LEFT_WALL == px(-450)
RIGHT_WALL == px(450)
BOTTOM_WALL == px(-300)
TOP_WALL == px(300)

Abs(n) == IF n < 0 THEN -n ELSE n

(* -------------------------------------------------------------- entities *)

Walls == {"WallLeft", "WallRight", "WallBottom", "WallTop"}

Paddles == {"PaddleLeft", "PaddleRight"}

\* The entities carrying Collider, in the order setup spawns them: the
\* order in which a Bevy 0.9 query over table components visits them.
collider_query ==
    <<"PaddleLeft", "PaddleRight", "WallLeft", "WallRight", "WallBottom", "WallTop">>

WallPosition(location) ==
    CASE location = "WallLeft" -> Vec2(LEFT_WALL, 0)
      [] location = "WallRight" -> Vec2(RIGHT_WALL, 0)
      [] location = "WallBottom" -> Vec2(0, BOTTOM_WALL)
      [] location = "WallTop" -> Vec2(0, TOP_WALL)

\* Mutant of WallSize: the two shapes exchanged.
WallSizeExchanged(location) ==
    LET arena_height == TOP_WALL - BOTTOM_WALL
        arena_width == RIGHT_WALL - LEFT_WALL
    IN  IF location \in {"WallBottom", "WallTop"}
        THEN Vec2(WALL_THICKNESS, arena_height + WALL_THICKNESS)
        ELSE Vec2(arena_width + WALL_THICKNESS, WALL_THICKNESS)

WallSize(location) ==
    LET arena_height == TOP_WALL - BOTTOM_WALL
        arena_width == RIGHT_WALL - LEFT_WALL
    IN  IF location \in {"WallLeft", "WallRight"}
        THEN Vec2(WALL_THICKNESS, arena_height + WALL_THICKNESS)
        ELSE Vec2(arena_width + WALL_THICKNESS, WALL_THICKNESS)

WallBundle(location) ==
    [translation |-> WallPosition(location), scale |-> WallSize(location)]

\* Sampled values of initial_ball_direction.normalize(): unit vectors
\* <<x, y>> / n with rational components.
InitialDirections ==
    { <<0, -1, 1>>, <<-4, -3, 5>> }

InitialVelocity(d) ==
    Vec2((d[1] * BALL_SPEED) \div d[3], (d[2] * BALL_SPEED) \div d[3])

setup_transform ==
    [e \in Paddles \cup {"Ball"} \cup Walls |->
        CASE e = "PaddleLeft" ->
               [translation |-> Vec2(LEFT_WALL + GAP_BETWEEN_PADDLE_AND_SIDES, 0),
                scale |-> PADDLE_SIZE]
          [] e = "PaddleRight" ->
               [translation |-> Vec2(RIGHT_WALL - GAP_BETWEEN_PADDLE_AND_SIDES, 0),
                scale |-> PADDLE_SIZE]
          [] e = "Ball" ->
               [translation |-> BALL_STARTING_POSITION, scale |-> BALL_SIZE]
          [] OTHER -> WallBundle(e)]

(* ------------------------------------------------------------- collision *)

\* A penetration depth: a finite (negative) number or -f32::INFINITY.
Finite(d) == [inf |-> FALSE, val |-> d]

NegInfinity == [inf |-> TRUE, val |-> 0]

\* y_depth.abs() < x_depth.abs()
AbsLess(y_depth, x_depth) ==
    IF y_depth.inf THEN FALSE
    ELSE IF x_depth.inf THEN TRUE
    ELSE Abs(y_depth.val) < Abs(x_depth.val)

x_side(a_min, a_max, b_min, b_max) ==
    IF a_min.x < b_min.x /\ a_max.x > b_min.x
    THEN [collision |-> "Left", depth |-> Finite(b_min.x - a_max.x)]
    ELSE IF a_min.x < b_max.x /\ a_max.x > b_max.x
    THEN [collision |-> "Right", depth |-> Finite(a_min.x - b_max.x)]
    ELSE [collision |-> "Inside", depth |-> NegInfinity]

y_side(a_min, a_max, b_min, b_max) ==
    IF a_min.y < b_min.y /\ a_max.y > b_min.y
    THEN [collision |-> "Bottom", depth |-> Finite(b_min.y - a_max.y)]
    ELSE IF a_min.y < b_max.y /\ a_max.y > b_max.y
    THEN [collision |-> "Top", depth |-> Finite(a_min.y - b_max.y)]
    ELSE [collision |-> "Inside", depth |-> NegInfinity]

\* The side of B that A has collided with, or "None".
collide(a_pos, a_size, b_pos, b_size) ==
    LET a_min == Vec2(a_pos.x - a_size.x \div 2, a_pos.y - a_size.y \div 2)
        a_max == Vec2(a_pos.x + a_size.x \div 2, a_pos.y + a_size.y \div 2)
        b_min == Vec2(b_pos.x - b_size.x \div 2, b_pos.y - b_size.y \div 2)
        b_max == Vec2(b_pos.x + b_size.x \div 2, b_pos.y + b_size.y \div 2)
        xs == x_side(a_min, a_max, b_min, b_max)
        ys == y_side(a_min, a_max, b_min, b_max)
    IN  IF a_min.x < b_max.x /\ a_max.x > b_min.x
           /\ a_min.y < b_max.y /\ a_max.y > b_min.y
        THEN IF AbsLess(ys.depth, xs.depth) THEN ys.collision ELSE xs.collision
        ELSE "None"

\* Mutants of reflect.
\* The guards of Left and Right exchanged.
reflect_guards_exchanged(collision, ball_velocity) ==
    LET reflect_x ==
            CASE collision = "Left" -> ball_velocity.x < 0
              [] collision = "Right" -> ball_velocity.x > 0
              [] OTHER -> FALSE
        reflect_y ==
            CASE collision = "Top" -> ball_velocity.y < 0
              [] collision = "Bottom" -> ball_velocity.y > 0
              [] OTHER -> FALSE
    IN  Vec2(IF reflect_x THEN -ball_velocity.x ELSE ball_velocity.x,
             IF reflect_y THEN -ball_velocity.y ELSE ball_velocity.y)

\* The guards of Top and Bottom exchanged.
reflect_top_bottom_exchanged(collision, ball_velocity) ==
    LET reflect_x ==
            CASE collision = "Left" -> ball_velocity.x > 0
              [] collision = "Right" -> ball_velocity.x < 0
              [] OTHER -> FALSE
        reflect_y ==
            CASE collision = "Top" -> ball_velocity.y > 0
              [] collision = "Bottom" -> ball_velocity.y < 0
              [] OTHER -> FALSE
    IN  Vec2(IF reflect_x THEN -ball_velocity.x ELSE ball_velocity.x,
             IF reflect_y THEN -ball_velocity.y ELSE ball_velocity.y)

\* A bounce that loses half the speed on the reflected axis.
reflect_damped(collision, ball_velocity) ==
    LET reflect_x ==
            CASE collision = "Left" -> ball_velocity.x > 0
              [] collision = "Right" -> ball_velocity.x < 0
              [] OTHER -> FALSE
        reflect_y ==
            CASE collision = "Top" -> ball_velocity.y < 0
              [] collision = "Bottom" -> ball_velocity.y > 0
              [] OTHER -> FALSE
    IN  Vec2(IF reflect_x THEN (-ball_velocity.x) \div 2 ELSE ball_velocity.x,
             IF reflect_y THEN (-ball_velocity.y) \div 2 ELSE ball_velocity.y)

\* No look at the velocity: the struck side alone decides.
reflect_unguarded(collision, ball_velocity) ==
    LET reflect_x == collision \in {"Left", "Right"}
        reflect_y == collision \in {"Top", "Bottom"}
    IN  Vec2(IF reflect_x THEN -ball_velocity.x ELSE ball_velocity.x,
             IF reflect_y THEN -ball_velocity.y ELSE ball_velocity.y)

\* The Bottom arm sets reflect_x instead of reflect_y.
reflect_bottom_sets_x(collision, ball_velocity) ==
    LET reflect_x ==
            CASE collision = "Left" -> ball_velocity.x > 0
              [] collision = "Right" -> ball_velocity.x < 0
              [] collision = "Bottom" -> ball_velocity.y > 0
              [] OTHER -> FALSE
        reflect_y ==
            CASE collision = "Top" -> ball_velocity.y < 0
              [] OTHER -> FALSE
    IN  Vec2(IF reflect_x THEN -ball_velocity.x ELSE ball_velocity.x,
             IF reflect_y THEN -ball_velocity.y ELSE ball_velocity.y)

\* The body of `if let Some(collision) = collision`: the new ball velocity.
reflect(collision, ball_velocity) ==
    LET reflect_x ==
            CASE collision = "Left" -> ball_velocity.x > 0
              [] collision = "Right" -> ball_velocity.x < 0
              [] OTHER -> FALSE
        reflect_y ==
            CASE collision = "Top" -> ball_velocity.y < 0
              [] collision = "Bottom" -> ball_velocity.y > 0
              [] OTHER -> FALSE
    IN  Vec2(IF reflect_x THEN -ball_velocity.x ELSE ball_velocity.x,
             IF reflect_y THEN -ball_velocity.y ELSE ball_velocity.y)

\* One iteration of the loop over the colliders.
collision_response(ball_velocity, ball_transform, other) ==
    LET collision == collide(ball_transform.translation, ball_transform.scale,
                             other.translation, other.scale)
    IN  [collision |-> collision,
         before |-> ball_velocity,
         after |-> IF collision = "None" THEN ball_velocity
                   ELSE reflect(collision, ball_velocity)]

\* The loop: the responses for the colliders of `query`, in order.
RECURSIVE responses(_, _, _)
responses(tf, ball_velocity, query) ==
    IF query = <<>> THEN <<>>
    ELSE LET r == collision_response(ball_velocity, tf["Ball"], tf[Head(query)])
         IN  <<r>> \o responses(tf, r.after, Tail(query))

NoCollision(v) == [collision |-> "None", before |-> v, after |-> v]

(* ----------------------------------------------------------------- setup *)

Systems ==
    {"move_paddle_left", "move_paddle_right", "apply_velocity", "check_for_collisions"}

\* Mutant of Before: apply_velocity left unordered.
BeforePaddlesOnly(system) ==
    IF system = "check_for_collisions"
    THEN {"move_paddle_left", "move_paddle_right"}
    ELSE {}

\* The .before(...) constraints of the system set.
Before(system) ==
    IF system = "check_for_collisions"
    THEN {"move_paddle_left", "move_paddle_right", "apply_velocity"}
    ELSE {}

Init ==
    /\ transform = setup_transform
    /\ velocity \in {InitialVelocity(d) : d \in InitialDirections}
    /\ scoreboard = [left_score |-> 0, right_score |-> 0]
    /\ ran = {}
    /\ tick = 0
    /\ ticks_left = MaxTicks
    /\ log = [c \in Paddles \cup Walls |-> NoCollision(velocity)]
    /\ prior = log

(* --------------------------------------------------------------- systems *)

\* A system of the set runs once per tick, after those it is ordered after.
MayRun(system) ==
    /\ system \notin ran
    /\ Before(system) \subseteq ran

\* Mutant of clamp: the upper limit forgotten.
clamp_lower_only(x, lower, upper) ==
    IF x < lower THEN lower ELSE x

clamp(x, lower, upper) ==
    IF x < lower THEN lower ELSE IF x > upper THEN upper ELSE x

upper_bound == TOP_WALL - WALL_THICKNESS \div 2 - PADDLE_SIZE.y \div 2 - PADDLE_PADDING

lower_bound == BOTTOM_WALL + WALL_THICKNESS \div 2 + PADDLE_SIZE.y \div 2 + PADDLE_PADDING

\* The paddle's new y for the keys held (up, down).
move_paddle(y, up, down) ==
    LET direction == (IF up THEN 1 ELSE 0) - (IF down THEN 1 ELSE 0)
        new_paddle_position == y + TimesTimeStep(direction * PADDLE_SPEED)
    IN  clamp(new_paddle_position, lower_bound, upper_bound)

move_paddle_left ==
    /\ MayRun("move_paddle_left")
    /\ \E W, S \in BOOLEAN :
         transform' = [transform EXCEPT !["PaddleLeft"].translation.y =
                          move_paddle(@, W, S)]
    /\ ran' = ran \cup {"move_paddle_left"}
    /\ UNCHANGED <<velocity, scoreboard, tick, ticks_left, log, prior>>

move_paddle_right ==
    /\ MayRun("move_paddle_right")
    /\ \E Up, Down \in BOOLEAN :
         transform' = [transform EXCEPT !["PaddleRight"].translation.y =
                          move_paddle(@, Up, Down)]
    /\ ran' = ran \cup {"move_paddle_right"}
    /\ UNCHANGED <<velocity, scoreboard, tick, ticks_left, log, prior>>

\* Only the ball carries both Transform and Velocity.
integrate(tf, v) ==
    [tf EXCEPT !["Ball"].translation.x = @ + TimesTimeStep(v.x),
               !["Ball"].translation.y = @ + TimesTimeStep(v.y)]

apply_velocity ==
    /\ MayRun("apply_velocity")
    /\ transform' = integrate(transform, velocity)
    /\ ran' = ran \cup {"apply_velocity"}
    /\ UNCHANGED <<velocity, scoreboard, tick, ticks_left, log, prior>>

\* Mutant of resolve_collisions: a ball on a side wall scores.
resolve_collisions_scoring(query) ==
    LET rs == responses(transform, velocity, query)
        hit(c) == \E i \in 1..Len(query) : query[i] = c /\ rs[i].collision # "None"
    IN  /\ velocity' = IF rs = <<>> THEN velocity ELSE rs[Len(rs)].after
        /\ log' = [c \in DOMAIN log |->
                     IF \E i \in 1..Len(query) : query[i] = c
                     THEN rs[CHOOSE i \in 1..Len(query) : query[i] = c]
                     ELSE log[c]]
        /\ prior' = log
        /\ scoreboard' =
             [left_score |-> scoreboard.left_score + (IF hit("WallRight") THEN 1 ELSE 0),
              right_score |-> scoreboard.right_score + (IF hit("WallLeft") THEN 1 ELSE 0)]
        /\ transform' = transform

\* The state change of check_for_collisions over the colliders of `query`.
resolve_collisions(query) ==
    LET rs == responses(transform, velocity, query)
    IN  /\ velocity' = IF rs = <<>> THEN velocity ELSE rs[Len(rs)].after
        /\ log' = [c \in DOMAIN log |->
                     IF \E i \in 1..Len(query) : query[i] = c
                     THEN rs[CHOOSE i \in 1..Len(query) : query[i] = c]
                     ELSE log[c]]
        /\ prior' = log
        /\ scoreboard' = scoreboard
        /\ transform' = transform

check_for_collisions ==
    /\ MayRun("check_for_collisions")
    /\ resolve_collisions(collider_query)
    /\ ran' = ran \cup {"check_for_collisions"}
    /\ UNCHANGED <<tick, ticks_left>>

\* FixedTimestep::step: every system of the set has run; the next tick starts.
fixed_timestep ==
    /\ ran = Systems
    /\ ticks_left > 0
    /\ ran' = {}
    /\ tick' = tick + 1
    /\ ticks_left' = ticks_left - 1
    /\ UNCHANGED <<transform, velocity, scoreboard, log, prior>>

Next ==
    \/ move_paddle_left
    \/ move_paddle_right
    \/ apply_velocity
    \/ check_for_collisions
    \/ fixed_timestep

Spec == Init /\ [][Next]_vars

(* ------------------------------------------------- the scenario of 8.6 *)

\* Ball at (0,-50) with velocity (0,-400); everything else as in setup.
InitScenario ==
    /\ transform = setup_transform
    /\ velocity = Vec2(0, -BALL_SPEED)
    /\ scoreboard = [left_score |-> 0, right_score |-> 0]
    /\ ran = {}
    /\ tick = 0
    /\ ticks_left = MaxTicks
    /\ log = [c \in Paddles \cup Walls |-> NoCollision(velocity)]
    /\ prior = log

SpecScenario == InitScenario /\ [][Next]_vars

(* ------------------------------------------------------------- the rally *)

\* The state k ticks after setup when no key is ever held: the paddles
\* stay where setup put them and the ball flies and bounces on its own.
\* One tick in which no key is held.
IdleTick(s) ==
    LET tf == integrate(s.transform, s.velocity)
        rs == responses(tf, s.velocity, collider_query)
    IN  [transform |-> tf, velocity |-> rs[Len(rs)].after, rs |-> rs, prs |-> s.rs]

RECURSIVE Drift(_, _)
Drift(s, k) ==
    IF k = 0 THEN s
    ELSE LET n == IdleTick(s)
         IN  IF n.velocity = n.velocity   \* evaluates n before the next call
             THEN Drift(n, k - 1) ELSE n

AtSetup(v0) ==
    [transform |-> setup_transform, velocity |-> v0,
     rs |-> [i \in 1..Len(collider_query) |-> NoCollision(v0)],
     prs |-> [i \in 1..Len(collider_query) |-> NoCollision(v0)]]

QueryIndex(c) == CHOOSE i \in 1..Len(collider_query) : collider_query[i] = c

\* The ball set off down and to the left and has flown RallyStart ticks.
InitRally ==
    LET s == Drift(AtSetup(InitialVelocity(<<-4, -3, 5>>)), RallyStart)
    IN  /\ transform = s.transform
        /\ velocity = s.velocity
        /\ scoreboard = [left_score |-> 0, right_score |-> 0]
        /\ ran = {}
        /\ tick = 0
        /\ ticks_left = RallyTicks
        /\ log = [c \in Paddles \cup Walls |-> s.rs[QueryIndex(c)]]
        /\ prior = [c \in Paddles \cup Walls |-> s.prs[QueryIndex(c)]]

SpecRally == InitRally /\ [][Next]_vars

(* ------------------------------------------ one (ball, collider) pair *)

\* Colliders tried: a paddle, a rectangle larger than the ball (the only
\* way to Collision::Inside) and a piece of horizontal wall.
PairColliders ==
    { [translation |-> Vec2(0, 0), scale |-> PADDLE_SIZE],
      [translation |-> Vec2(0, 0), scale |-> Vec2(2 * BALL_SIZE.x, 2 * BALL_SIZE.y)],
      [translation |-> Vec2(0, 0), scale |-> Vec2(px(100), WALL_THICKNESS)] }

PairCell == px(5)

\* The sampled directions, reflected and transposed.
PairVelocities ==
    UNION { { Vec2(a * v.x, b * v.y), Vec2(a * v.y, b * v.x) } :
              <<a, b, v>> \in {-1, 1} \X {-1, 1}
                              \X {InitialVelocity(d) : d \in InitialDirections} }

InitPair ==
    /\ transform \in
         { [e \in {"Ball", "Probe"} |->
              IF e = "Ball"
              THEN [translation |-> Vec2(i * PairCell, j * PairCell), scale |-> BALL_SIZE]
              ELSE p] :
           <<i, j, p>> \in (-PairSpanX..PairSpanX) \X (-PairSpanY..PairSpanY)
                              \X PairColliders }
    /\ velocity \in PairVelocities
    /\ scoreboard = [left_score |-> 0, right_score |-> 0]
    /\ ran = {}
    /\ tick = 0
    /\ ticks_left = MaxApplications
    /\ log = [c \in {"Probe"} |-> NoCollision(velocity)]
    /\ prior = log

\* check_for_collisions with the pair's collider as the only collider.
pair_response ==
    /\ ticks_left > 0
    /\ resolve_collisions(<<"Probe">>)
    /\ tick' = tick + 1
    /\ ticks_left' = ticks_left - 1
    /\ UNCHANGED ran

SpecPair == InitPair /\ [][pair_response]_vars

(* ---------------------------------------------------------------- claims *)

FlippedX(e) == e.after.x # e.before.x

FlippedY(e) == e.after.y # e.before.y

\* The extents of an entity.
LowX(t) == t.translation.x - t.scale.x \div 2

HighX(t) == t.translation.x + t.scale.x \div 2

LowY(t) == t.translation.y - t.scale.y \div 2

HighY(t) == t.translation.y + t.scale.y \div 2

Min(a, b) == IF a < b THEN a ELSE b

Max(a, b) == IF a > b THEN a ELSE b

\* C1: each paddle's y lies within [lower_bound, upper_bound], the bounds
\* being TOP_WALL - WALL_THICKNESS/2 - PADDLE_SIZE.y/2 - PADDLE_PADDING and
\* BOTTOM_WALL + WALL_THICKNESS/2 + PADDLE_SIZE.y/2 + PADDLE_PADDING, in
\* every state, whatever keys were held.
C1_PaddleWithinBounds ==
    \A p \in Paddles :
        /\ transform[p].translation.y
             <= TOP_WALL - WALL_THICKNESS \div 2 - PADDLE_SIZE.y \div 2 - PADDLE_PADDING
        /\ transform[p].translation.y
             >= BOTTOM_WALL + WALL_THICKNESS \div 2 + PADDLE_SIZE.y \div 2 + PADDLE_PADDING

\* One paddle held up and the other held down for longer than it takes to
\* reach the bounds.
C1_Witness ==
    /\ tick > 28
    /\ transform["PaddleLeft"].translation.y = px(225)
    /\ transform["PaddleRight"].translation.y = px(-225)

\* C2 as stated: the phases run in the strict order paddle motion, then
\* integration, then collision resolution, so integration has never run
\* in a tick in which a paddle system has not.
C2_StrictOrder ==
    /\ "apply_velocity" \in ran => {"move_paddle_left", "move_paddle_right"} \subseteq ran
    /\ "check_for_collisions" \in ran => ran = Systems

\* C2, amended: in every tick each of the four systems runs exactly once,
\* and check_for_collisions runs only after both paddle systems and
\* apply_velocity have run in that tick; the order among those three is
\* not fixed.
C2_CollisionsLast ==
    [][ /\ ("check_for_collisions" \in ran' /\ "check_for_collisions" \notin ran)
            => ran = {"move_paddle_left", "move_paddle_right", "apply_velocity"}
        /\ ran' # ran =>
            \/ \E s \in Systems \ ran : ran' = ran \cup {s}
            \/ ran = Systems /\ ran' = {} /\ tick' = tick + 1
        /\ tick' # tick => ran = Systems /\ ran' = {}
        /\ transform' # transform => \E s \in Systems \ ran : ran' = ran \cup {s}
      ]_vars

\* A later tick is complete: all four systems have run, the paddles and
\* the ball have moved.
C2_Witness ==
    /\ ran = Systems
    /\ tick >= 1
    /\ transform["PaddleLeft"].translation.y # 0
    /\ transform["PaddleRight"].translation.y # 0
    /\ transform["Ball"].translation # BALL_STARTING_POSITION

\* C3: for a (ball, collider) pair, Left negates vx iff vx > 0, Right
\* negates vx iff vx < 0, Top negates vy iff vy < 0, Bottom negates vy iff
\* vy > 0, Inside and no overlap change nothing, and the velocity after
\* collision resolution is the one this leaves.
C3_ResponseBySide ==
    tick >= 1 =>
        LET e == log["Probe"]
            nx == \/ e.collision = "Left" /\ e.before.x > 0
                  \/ e.collision = "Right" /\ e.before.x < 0
            ny == \/ e.collision = "Top" /\ e.before.y < 0
                  \/ e.collision = "Bottom" /\ e.before.y > 0
        IN  /\ e.after.x = IF nx THEN 0 - e.before.x ELSE e.before.x
            /\ e.after.y = IF ny THEN 0 - e.before.y ELSE e.before.y
            /\ e.collision \in {"Inside", "None"} => e.after = e.before
            /\ velocity = e.after

\* The ball, moving right, has struck the left side of the collider and
\* has been turned back.
C3_Witness ==
    /\ tick = 1
    /\ log["Probe"].collision = "Left"
    /\ log["Probe"].before.x > 0
    /\ log["Probe"].after.x < 0
    /\ log["Probe"].after.y = log["Probe"].before.y

\* C4: |vx| and |vy| are in every reachable state what they were at setup:
\* the simulation only ever negates a component of the ball's velocity.
C4_SpeedConserved ==
    /\ Abs(velocity.x) = Abs(InitialVelocity(<<-4, -3, 5>>).x)
    /\ Abs(velocity.y) = Abs(InitialVelocity(<<-4, -3, 5>>).y)
    /\ \A c \in DOMAIN log :
         /\ Abs(log[c].after.x) = Abs(log[c].before.x)
         /\ Abs(log[c].after.y) = Abs(log[c].before.y)

\* vy, negated by the bottom wall, has been negated again by the left
\* paddle.
C4_Witness ==
    /\ FlippedY(log["PaddleLeft"])
    /\ log["PaddleLeft"].collision = "Bottom"
    /\ velocity.y = InitialVelocity(<<-4, -3, 5>>).y
    /\ tick > 0

\* C5: applying the collision response to the same pair a second time, at
\* the same positions, leaves the velocity the first application left.
C5_Idempotent ==
    tick >= 2 =>
        /\ log["Probe"].before = prior["Probe"].after
        /\ log["Probe"].collision = prior["Probe"].collision
        /\ log["Probe"].after = prior["Probe"].after
        /\ velocity = prior["Probe"].after

\* The first application negated a component, the second did not.
C5_Witness ==
    /\ tick = 2
    /\ FlippedY(prior["Probe"])
    /\ log["Probe"].collision = "Top"
    /\ ~FlippedY(log["Probe"])

\* C6: a collider that reflected a velocity component in one tick and is
\* overlapped again in the next, the component having the sign that
\* reflection left, does not negate that component again.
C6_NoReReflection ==
    \A c \in DOMAIN log :
        /\ (FlippedX(prior[c]) /\ log[c].collision # "None"
              /\ log[c].before.x = prior[c].after.x) => ~FlippedX(log[c])
        /\ (FlippedY(prior[c]) /\ log[c].collision # "None"
              /\ log[c].before.y = prior[c].after.y) => ~FlippedY(log[c])

\* A paddle reflected the ball, followed it and overlaps it again one tick
\* later.
C6_Witness ==
    \E c \in Paddles :
        /\ FlippedY(prior[c])
        /\ log[c].collision # "None"
        /\ log[c].before.y = prior[c].after.y
        /\ ~FlippedY(log[c])

HitsBottomWall == log["WallBottom"].collision # "None"

\* Whole ticks the ball of the scenario falls before its lower edge is
\* past the upper face of the bottom wall.
TicksAboveWall ==
    ((BALL_STARTING_POSITION.y - BALL_SIZE.y \div 2)
       - (BOTTOM_WALL + WALL_THICKNESS \div 2)) \div TimesTimeStep(BALL_SPEED)

\* Collision resolution has not yet run in the tick of first contact.
BeforeContact ==
    \/ tick < TicksAboveWall
    \/ tick = TicksAboveWall /\ "check_for_collisions" \notin ran

\* C7 as stated: when the ball of the scenario overlaps the bottom wall the
\* primitive reports Bottom and velocity.y flips from negative to positive.
C7_ReportsBottom ==
    HitsBottomWall =>
        /\ log["WallBottom"].collision = "Bottom"
        /\ log["WallBottom"].before.y < 0
        /\ log["WallBottom"].after.y > 0

\* C7, amended: the ball of the scenario falls along x = 0 with velocity
\* (0, -400) and overlaps nothing until the 35th tick, in which it overlaps
\* the bottom wall; there the primitive reports Top (the ball is on the
\* wall's top side) and velocity.y flips from -400 to 400.
C7_ReportsTop ==
    /\ transform["Ball"].translation.x = 0
    /\ BeforeContact =>
         /\ velocity = Vec2(0, -BALL_SPEED)
         /\ \A c \in DOMAIN log : log[c].collision = "None"
    /\ (tick = TicksAboveWall /\ "check_for_collisions" \in ran) => HitsBottomWall
    /\ HitsBottomWall =>
         /\ log["WallBottom"].collision = "Top"
         /\ log["WallBottom"].before = Vec2(0, -BALL_SPEED)
         /\ log["WallBottom"].after = Vec2(0, BALL_SPEED)
         /\ velocity = Vec2(0, BALL_SPEED)
         /\ \A c \in DOMAIN log \ {"WallBottom"} : log[c].collision = "None"

\* The ball has reached the bottom wall and has been sent back up.
C7_Witness ==
    /\ HitsBottomWall
    /\ log["WallBottom"].collision = "Top"
    /\ velocity.y > 0
    /\ LowY(transform["Ball"]) < HighY(transform["WallBottom"])

(* The overlap of the ball's and a collider's intervals on each axis (the
   penetration depth of the glossary). *)
PenetrationX(c) ==
    Min(HighX(transform["Ball"]), HighX(transform[c]))
      - Max(LowX(transform["Ball"]), LowX(transform[c]))

PenetrationY(c) ==
    Min(HighY(transform["Ball"]), HighY(transform[c]))
      - Max(LowY(transform["Ball"]), LowY(transform[c]))

BeyondLeft(c) == LowX(transform["Ball"]) < LowX(transform[c])

BeyondRight(c) == HighX(transform["Ball"]) > HighX(transform[c])

BeyondBottom(c) == LowY(transform["Ball"]) < LowY(transform[c])

BeyondTop(c) == HighY(transform["Ball"]) > HighY(transform[c])

\* Collision resolution has just run with the diagonally moving ball over
\* one corner of collider c.
CornerHit(c) ==
    /\ "check_for_collisions" \in ran
    /\ PenetrationX(c) > 0
    /\ PenetrationY(c) > 0
    /\ BeyondLeft(c) # BeyondRight(c)
    /\ BeyondBottom(c) # BeyondTop(c)
    /\ log[c].before.x # 0
    /\ log[c].before.y # 0

\* C8 as stated: a corner hit reflects exactly one axis, the one with the
\* smaller penetration.
C8_ExactlyOneAxis ==
    \A c \in DOMAIN log :
        CornerHit(c) =>
            /\ FlippedX(log[c]) # FlippedY(log[c])
            /\ PenetrationY(c) < PenetrationX(c) => FlippedY(log[c])
            /\ PenetrationX(c) < PenetrationY(c) => FlippedX(log[c])

\* C8, amended: a corner hit never reflects both axes; only the axis with
\* the smaller penetration (x when the two are equal) can reflect, and it
\* does exactly when the ball is moving into the struck side on that axis.
C8_AtMostOneAxis ==
    \A c \in DOMAIN log :
        CornerHit(c) =>
            LET e == log[c]
                into_x == \/ BeyondLeft(c) /\ e.before.x > 0
                          \/ BeyondRight(c) /\ e.before.x < 0
                into_y == \/ BeyondBottom(c) /\ e.before.y > 0
                          \/ BeyondTop(c) /\ e.before.y < 0
            IN  /\ ~(FlippedX(e) /\ FlippedY(e))
                /\ PenetrationY(c) < PenetrationX(c)
                     => (~FlippedX(e) /\ (FlippedY(e) <=> into_y))
                /\ PenetrationX(c) <= PenetrationY(c)
                     => (~FlippedY(e) /\ (FlippedX(e) <=> into_x))
                /\ (into_x /\ into_y) => (FlippedX(e) # FlippedY(e))

\* The ball is over a corner of the left paddle that it penetrates equally
\* on both axes, and x has been reflected.
C8_Witness ==
    /\ CornerHit("PaddleLeft")
    /\ PenetrationX("PaddleLeft") = PenetrationY("PaddleLeft")
    /\ FlippedX(log["PaddleLeft"])
    /\ ~FlippedY(log["PaddleLeft"])

\* C9: left_score and right_score keep their initial value 0.
C9_ScoreboardUnchanged ==
    scoreboard = [left_score |-> 0, right_score |-> 0]

\* The ball has hit the left wall, behind the left paddle.
C9_Witness ==
    /\ log["WallLeft"].collision = "Right"
    /\ transform["Ball"].translation.x < transform["PaddleLeft"].translation.x
    /\ scoreboard.right_score = 0

\* C10: the ball's centre stays strictly between the wall centres.
C10_BallContained ==
    /\ LEFT_WALL < transform["Ball"].translation.x
    /\ transform["Ball"].translation.x < RIGHT_WALL
    /\ BOTTOM_WALL < transform["Ball"].translation.y
    /\ transform["Ball"].translation.y < TOP_WALL

\* The ball has bounced off the bottom wall and then off the left wall,
\* having passed the left paddle.
C10_Witness ==
    /\ FlippedX(log["WallLeft"])
    /\ velocity.x > 0
    /\ tick > 20

====
